---- MODULE Spec2Model ----
(***************************************************************************)
(* A model of the logos resolution engine (src/logos/context.py):          *)
(* resources, flat and layered registries, the ApplicationContainer         *)
(* singleton, Context scopes with their runtime cache, the ContextVar that  *)
(* holds the active-scope list, and the ambient accessor `context`.         *)
(*                                                                         *)
(* Python strings are TLA+ strings; Python values are tagged records.       *)
(* A Python exception is a value tagged "err" that every caller passes on.  *)
(***************************************************************************)
EXTENDS Integers, Sequences, FiniteSets, TLC

VARIABLES
    app,        \* ApplicationContainer.instance and that object's fields
    made,       \* number of ApplicationContainer objects object.__new__ has built
    wstack,     \* context._stack of the module-level __ContextWrapper
    scopes,     \* heap of Context objects: container, runtime (and their parent)
    cvar,       \* Context.instances as each task's context binds it: a list id, 0 if unset
    lists,      \* heap of the list objects Context.instances has been set to
    objs,       \* number of objects built by Service resolution and clone()
    last        \* the last operation: who called what, and what it returned

vars == <<app, made, wstack, scopes, cvar, lists, objs, last>>

----------------------------------------------------------------------------
(* Bounds of the model *)

MaxScopes == 2
MaxObjs == 2
MaxStack == 3
MaxLayers == 3
MaxDepth == 2

----------------------------------------------------------------------------
(* Python values *)

NoneV == [t |-> "none"]
IntV(i) == [t |-> "int", n |-> i]
StrV(s) == [t |-> "str", s |-> s]
BoolV(b) == [t |-> "bool", b |-> b]
DictV(d) == [t |-> "dict", d |-> d]
ListV(l) == [t |-> "list", l |-> l]
SetV(e) == [t |-> "set", e |-> e]
ObjV(id, cls, kwargs) == [t |-> "obj", n |-> id, s |-> cls, d |-> kwargs]
ClassV(cls) == [t |-> "class", s |-> cls]
CtxV(sid) == [t |-> "ctx", n |-> sid]
Err(type, msg) == [t |-> "err", s |-> type, m |-> msg]

IsErr(v) == v.t = "err"
EmptyDict == <<>>

(* str.startswith / str.endswith with a one-character argument *)
StartsWith(s, c) == Len(s) >= 1 /\ SubSeq(s, 1, 1) = c
EndsWith(s, c) == Len(s) >= 1 /\ SubSeq(s, Len(s), Len(s)) = c

RECURSIVE Replace(_, _)
(* str.replace(c, '') for a one-character c: every occurrence is removed *)
Replace(s, c) ==
    IF Len(s) = 0 THEN ""
    ELSE (IF SubSeq(s, 1, 1) = c THEN "" ELSE SubSeq(s, 1, 1))
             \o Replace(SubSeq(s, 2, Len(s)), c)

----------------------------------------------------------------------------
(* Resources (declarations) and registries *)

Parameter(value) == [kind |-> "Parameter", value |-> value]
Class(class_path) == [kind |-> "Class", class_path |-> class_path]
ResourceGroup(pattern) == [kind |-> "ResourceGroup", pattern |-> pattern]

(* Service.__init__: klz wins when given, else factory, else ValueError.    *)
(* An absent argument (None) is the value NoneV; hasklz / hasfactory say    *)
(* which attribute the object got.                                          *)
ServiceInit(klz, factory, parameters) ==
    IF klz # NoneV
    THEN [kind |-> "Service", hasklz |-> TRUE, klz |-> klz.s,
          hasfactory |-> FALSE, factory |-> "", parameters |-> parameters]
    ELSE IF factory # NoneV
    THEN [kind |-> "Service", hasklz |-> FALSE, klz |-> "",
          hasfactory |-> TRUE, factory |-> factory.s, parameters |-> parameters]
    ELSE Err("ValueError", "class or factory is required")

Container(resources) == [t |-> "Container", resources |-> resources]
StackContainer(containers) == [t |-> "Stack", containers |-> containers]
AppRef == [t |-> "App"]       \* a reference to the ApplicationContainer object
NoneRef == NoneV              \* the Python value None where a container is expected

(* src/logos/__init__.py: the registry of the built-in module *)
LogosContainer ==
    Container(
        "groups.commands" :> ResourceGroup("^app.command.") @@
        "app.command" :> ServiceInit(StrV("logos.command:DelegateCommand"), NoneV,
                                     "commands" :> StrV("%groups.commands%")))

(* The classes import_module can load: the built-in DelegateCommand and the *)
(* classes of the application under test.  Buf has a clone method, Plain    *)
(* and DelegateCommand have none, Factory has a create method.              *)
KnownClasses == {"logos.command:DelegateCommand", "m:Plain", "m:Buf", "m:Factory"}
HasClone(v) == v.t = "obj" /\ v.s = "m:Buf"
HasCreate(v) == v.t = "obj" /\ v.s = "m:Factory"

(* The registries of the application modules import_module can load.        *)
(* Module "bare" exists and exposes no `container` attribute.               *)
AppModule ==
    Container(
        "k" :> Parameter(IntV(1)) @@
        "p" :> Parameter(StrV("%k%")) @@
        "svc" :> ServiceInit(StrV("m:Buf"), NoneV, "arg" :> StrV("%k%")) @@
        "bad" :> Parameter(StrV("%nope%")))

OvrModule ==
    Container(
        "k" :> Parameter(IntV(2)) @@
        "plain" :> ServiceInit(StrV("m:Plain"), NoneV, EmptyDict))

(* A module that declares commands, a group of its own with an unanchored   *)
(* pattern, and the name of the built-in command service                    *)
CmdsModule ==
    Container(
        "app.command" :> Parameter(IntV(3)) @@
        "app.command.build" :> Parameter(IntV(4)) @@
        "app.command.test" :> Parameter(IntV(5)) @@
        "cmd.cmd.a" :> Parameter(IntV(6)) @@
        "groups.cmd" :> ResourceGroup("cmd."))

KnownModules == {"logos", "app", "ovr", "bare", "cmds"}
HasContainerAttr(m) == m \in {"logos", "app", "ovr", "cmds"}
ModuleContainer(m) ==
    CASE m = "logos" -> LogosContainer
      [] m = "app" -> AppModule
      [] m = "ovr" -> OvrModule
      [] m = "cmds" -> CmdsModule

(* A registry with one more command, handed to Context.new_from *)
ExtraCommands == Container("app.command.run" :> Parameter(IntV(8)))

(* The registry a caller hands to Context.new_from as `container` *)
ExtraRegistry ==
    Container("k" :> Parameter(IntV(7)) @@ "x" :> Parameter(StrV("%k%")))

(* An extra registry that declares names the application declares too *)
ExtraService ==
    Container("k" :> Parameter(IntV(7)) @@
              "svc" :> ServiceInit(StrV("m:Plain"), NoneV, EmptyDict))

NoApp == [exists |-> FALSE, modules |-> <<>>, configuration |-> EmptyDict,
          container |-> NoneRef]

----------------------------------------------------------------------------
(* re.match and re.sub for the patterns the groups use: literal characters, *)
(* "." for any character, an optional leading "^".                          *)

Anchored(pattern) == StartsWith(pattern, "^")
PatBody(pattern) == IF Anchored(pattern) THEN SubSeq(pattern, 2, Len(pattern)) ELSE pattern

MatchAt(body, s, i) ==
    /\ i + Len(body) - 1 <= Len(s)
    /\ \A j \in 1..Len(body) :
          \/ SubSeq(body, j, j) = "."
          \/ SubSeq(body, j, j) = SubSeq(s, i + j - 1, i + j - 1)

(* re.match(pattern, name): a match at the start of name *)
Match(pattern, name) == MatchAt(PatBody(pattern), name, 1)

RECURSIVE SubFrom(_, _, _)
SubFrom(pattern, s, i) ==
    IF i > Len(s) THEN ""
    ELSE IF (~Anchored(pattern) \/ i = 1) /\ Len(PatBody(pattern)) > 0
            /\ MatchAt(PatBody(pattern), s, i)
    THEN SubFrom(pattern, s, i + Len(PatBody(pattern)))
    ELSE SubSeq(s, i, i) \o SubFrom(pattern, s, i + 1)

(* re.sub(pattern, '', s): every match is removed *)
Sub(pattern, s) == SubFrom(pattern, s, 1)

----------------------------------------------------------------------------
(* Resolution.  An operation runs on a record st of the objects it can      *)
(* change: scopes (the Context heap), app, wstack, objs, and log, the       *)
(* names whose Resource.resolve has been called; st.stack is the list       *)
(* Context.instances gives the calling task.  Every operator returns        *)
(* [st, r]: the state it leaves and its result, a value or an exception.    *)

Ret(st, r) == [st |-> st, r |-> r]

(* the rest of a method after a call has returned: an exception the call    *)
(* raised is passed on                                                      *)
Then(res, Rest(_)) == IF IsErr(res.r) THEN res ELSE Rest(res)

(* the rest of a method after a local variable has been assigned *)
Let(value, Rest(_)) == Rest(value)

SetMax(S) == IF S = {} THEN 0 ELSE CHOOSE m \in S : \A x \in S : x <= m

(* object.__call__ on a loaded class, factory.create, value.clone():        *)
(* each builds one new object                                               *)
NewObject(st, cls, kwargs) ==
    Ret([st EXCEPT !.objs = @ + 1], ObjV(st.objs + 1, cls, kwargs))

(* the first layer of the application's registry *)
Synthetic(a) ==
    Container(
        "app.modules" :>
            Parameter(ListV([i \in 1..Len(a.modules) |-> StrV(a.modules[i])])) @@
        "app.configuration" :> Parameter(DictV(a.configuration)))

(* the `container` attributes of the modules that have one, in list order *)
ModuleLayers(modules) ==
    Let(SelectSeq(modules, HasContainerAttr),
        LAMBDA withAttr : [i \in 1..Len(withAttr) |-> ModuleContainer(withAttr[i])])

(* ApplicationContainer.container: the layered registry, built on first use *)
AppContainerProp(st) ==
    IF st.app.container # NoneRef THEN Ret(st, st.app.container)
    ELSE IF \E i \in 1..Len(st.app.modules) : st.app.modules[i] \notin KnownModules
    THEN Ret(st, Err("ModuleNotFoundError", "import_module"))
    ELSE Let(StackContainer(<<Synthetic(st.app)>> \o ModuleLayers(st.app.modules)),
             LAMBDA built : Ret([st EXCEPT !.app.container = built], built))

RECURSIVE NamesFrom(_, _, _, _)
(* the loop of StackContainer.resources_names over self.containers *)
NamesFrom(st, containers, i, resources) ==
    IF i > Len(containers) THEN Ret(st, SetV(resources))
    ELSE Then(IF containers[i].t = "App" THEN AppContainerProp(st)
              ELSE Ret(st, containers[i]),
              LAMBDA c :
                 IF c.r.t = "Container"
                 THEN NamesFrom(c.st, containers, i + 1,
                                resources \cup DOMAIN c.r.resources)
                 ELSE IF c.r.t = "Stack"
                 THEN Then(NamesFrom(c.st, c.r.containers, 1, {}),
                           LAMBDA inner :
                              NamesFrom(inner.st, containers, i + 1,
                                        resources \cup inner.r.e))
                 ELSE NamesFrom(c.st, containers, i + 1, resources))

(* StackContainer.resources_names: the union of the flat registries' names. *)
(* The _resources_names cache is left out: the layers are fixed once the    *)
(* registry is in use, so the cached set is the set computed here.          *)
ResourcesNames(st, reg) == NamesFrom(st, reg.containers, 1, {})

(* the root Context the ambient accessor builds over its _stack *)
RootContext(stack, sid) ==
    [container |->
         StackContainer(<<stack, Container("context" :> Parameter(CtxV(sid)))>>),
     runtime |-> EmptyDict,
     parent |-> 0]

(* __ContextWrapper.container: the scope the ambient accessor delegates to  *)
WrapperContainer(st) ==
    Let(IF st.wstack = NoneRef
        THEN [st EXCEPT !.wstack =
                  StackContainer(<<IF st.app.exists THEN AppRef ELSE NoneRef>>)]
        ELSE st,
        LAMBDA st1 :
           IF Len(st1.stack) > 0
           THEN Ret(st1, st1.stack[Len(st1.stack)])
           ELSE Ret([st1 EXCEPT !.scopes =
                         Append(@, RootContext(st1.wstack, Len(st1.scopes) + 1))],
                    Len(st1.scopes) + 1))

(* The methods below call one another in a cycle (a registry resolves a     *)
(* resource, which asks the ambient accessor, which asks a registry), so    *)
(* every such call goes through Call(st, method, arguments), defined after  *)
(* them.                                                                    *)
RECURSIVE Call(_, _, _)

(* Context.get without the cache test: every call resolves again *)
ContextGetMutant(st, sid, name) ==
    Then(Call(st, "RegGet", <<st.scopes[sid].container, name>>),
         LAMBDA got :
            Ret([got.st EXCEPT !.scopes[sid].runtime = (name :> got.r) @@ @], got.r))

(* StackContainer.get without reversed(): the first layer that has the name *)
StackContainerGetMutant(st, reg, name) ==
    Call(st, "StackGetFrom",
         <<[i \in 1..Len(reg.containers) |-> reg.containers[Len(reg.containers) + 1 - i]],
           Len(reg.containers), name>>)

(* Container.get with the test for a missing resource inverted *)
ContainerGetMutant(st, reg, name) ==
    IF name \in DOMAIN reg.resources
    THEN Ret(st, Err("ContainerException", name))
    ELSE Ret(st, Err("AttributeError", "resolve"))

(* __ContextWrapper.get *)
WrapperGet(st, name) ==
    Let(WrapperContainer(st), LAMBDA c : Call(c.st, "ContextGet", <<c.r, name>>))

(* __ContextWrapper.has *)
WrapperHas(st, name) ==
    Let(WrapperContainer(st), LAMBDA c : Call(c.st, "ContextHas", <<c.r, name>>))

(* __ContextWrapper.find *)
WrapperFind(st, pattern) ==
    Let(WrapperContainer(st),
        LAMBDA c :
           Then(ResourcesNames(c.st, c.st.scopes[c.r].container),
                LAMBDA names :
                   Ret(names.st, SetV({n \in names.r.e : Match(pattern, n)}))))

(* Parameter.resolve_value *)
ResolveValue(st, value) ==
    IF value.t = "dict"
    THEN Call(st, "ResolveItems", <<value.d, DOMAIN value.d, EmptyDict>>)
    ELSE IF value.t = "list"
    THEN Call(st, "ResolveList", <<value.l, 1, <<>> >>)
    ELSE IF value.t = "str" /\ StartsWith(value.s, "%") /\ EndsWith(value.s, "%")
    THEN Then(Call(st, "WrapperGet", <<Replace(value.s, "%")>>),
              LAMBDA got : Call(got.st, "ResolveValue", <<got.r>>))
    ELSE Ret(st, value)

(* the dict comprehension of resolve_value, one item at a time *)
ResolveItems(st, d, keys, acc) ==
    IF keys = {} THEN Ret(st, DictV(acc))
    ELSE LET key == CHOOSE x \in keys : TRUE
         IN Then(Call(st, "ResolveValue", <<d[key]>>),
                 LAMBDA res :
                    Call(res.st, "ResolveItems",
                         <<d, keys \ {key}, (key :> res.r) @@ acc>>))

(* the list comprehension of resolve_value, one element at a time *)
ResolveList(st, l, i, acc) ==
    IF i > Len(l) THEN Ret(st, ListV(acc))
    ELSE Then(Call(st, "ResolveValue", <<l[i]>>),
              LAMBDA res :
                 Call(res.st, "ResolveList", <<l, i + 1, Append(acc, res.r)>>))

(* Service.resolve *)
ServiceResolve(st, service) ==
    Then(Call(st, "ResolveValue", <<DictV(service.parameters)>>),
         LAMBDA kwargs :
            IF service.hasfactory
            THEN Then(Call(kwargs.st, "WrapperGet", <<service.factory>>),
                      LAMBDA factory :
                         IF HasCreate(factory.r)
                         THEN NewObject(factory.st, "m:Product", kwargs.r.d)
                         ELSE Ret(factory.st, Err("AttributeError", "create")))
            ELSE IF service.klz \in KnownClasses
            THEN NewObject(kwargs.st, service.klz, kwargs.r.d)
            ELSE Ret(kwargs.st, Err("DynamicLoadError", service.klz)))

(* Class.resolve *)
ClassResolve(st, class) ==
    IF class.class_path \in KnownClasses
    THEN Ret(st, ClassV(class.class_path))
    ELSE Ret(st, Err("DynamicLoadError", class.class_path))

(* the dict comprehension of ResourceGroup.resolve: sub(pattern, '', v) to  *)
(* v; the inputs of this model have no two names with the same key          *)
GroupDict(pattern, names) ==
    [key \in {Sub(pattern, v) : v \in names} |->
        StrV(CHOOSE v \in names : Sub(pattern, v) = key)]

(* ResourceGroup.resolve *)
ResourceGroupResolve(st, group) ==
    Then(WrapperFind(st, group.pattern),
         LAMBDA found : Ret(found.st, DictV(GroupDict(group.pattern, found.r.e))))

(* AbstractResource.resolve, by variant *)
ResourceResolve(st, resource) ==
    CASE resource.kind = "Parameter" -> Call(st, "ResolveValue", <<resource.value>>)
      [] resource.kind = "Service" -> ServiceResolve(st, resource)
      [] resource.kind = "Class" -> ClassResolve(st, resource)
      [] resource.kind = "ResourceGroup" -> ResourceGroupResolve(st, resource)

(* Container.has *)
ContainerHas(reg, name) == name \in DOMAIN reg.resources

(* Container.get: the resource resolves against the ambient accessor *)
ContainerGet(st, reg, name) ==
    IF name \notin DOMAIN reg.resources
    THEN Ret(st, Err("ContainerException", name))
    ELSE ResourceResolve([st EXCEPT !.log = Append(@, name)], reg.resources[name])

(* StackContainer.get returning None when no layer has the name *)
StackGetFromMutant(st, containers, i, name) ==
    IF i = 0 THEN Ret(st, NoneV)
    ELSE Then(Call(st, "RegHas", <<containers[i], name>>),
              LAMBDA h :
                 IF h.r.b THEN Call(h.st, "RegGet", <<containers[i], name>>)
                 ELSE Call(h.st, "StackGetFrom", <<containers, i - 1, name>>))

(* StackContainer.get: the layers from the last to the first, then          *)
(* self.containers[0].get(name), an IndexError when there is no layer       *)
StackGetFrom(st, containers, i, name) ==
    IF i = 0
    THEN IF Len(containers) = 0 THEN Ret(st, Err("IndexError", "list index out of range"))
         ELSE Call(st, "RegGet", <<containers[1], name>>)
    ELSE Then(Call(st, "RegHas", <<containers[i], name>>),
              LAMBDA h :
                 IF h.r.b THEN Call(h.st, "RegGet", <<containers[i], name>>)
                 ELSE Call(h.st, "StackGetFrom", <<containers, i - 1, name>>))

StackContainerGet(st, reg, name) ==
    Call(st, "StackGetFrom", <<reg.containers, Len(reg.containers), name>>)

(* StackContainer.has: any(...) over the layers from the first to the last *)
StackHasFrom(st, containers, i, name) ==
    IF i > Len(containers) THEN Ret(st, BoolV(FALSE))
    ELSE Then(Call(st, "RegHas", <<containers[i], name>>),
              LAMBDA h :
                 IF h.r.b THEN h
                 ELSE Call(h.st, "StackHasFrom", <<containers, i + 1, name>>))

StackContainerHas(st, reg, name) ==
    Call(st, "StackHasFrom", <<reg.containers, 1, name>>)

(* ApplicationContainer.get *)
ApplicationContainerGet(st, name) ==
    Then(AppContainerProp(st), LAMBDA c : Call(c.st, "StackContainerGet", <<c.r, name>>))

(* ApplicationContainer.has *)
ApplicationContainerHas(st, name) ==
    Then(AppContainerProp(st), LAMBDA c : Call(c.st, "StackContainerHas", <<c.r, name>>))

(* AbstractContainer.get on whatever object stands as a layer *)
RegGet(st, reg, name) ==
    CASE reg.t = "Container" -> ContainerGet(st, reg, name)
      [] reg.t = "Stack" -> StackContainerGet(st, reg, name)
      [] reg.t = "App" -> ApplicationContainerGet(st, name)
      [] reg.t = "none" -> Ret(st, Err("AttributeError", "get"))

(* AbstractContainer.has on whatever object stands as a layer *)
RegHas(st, reg, name) ==
    CASE reg.t = "Container" -> Ret(st, BoolV(ContainerHas(reg, name)))
      [] reg.t = "Stack" -> StackContainerHas(st, reg, name)
      [] reg.t = "App" -> ApplicationContainerHas(st, name)
      [] reg.t = "none" -> Ret(st, Err("AttributeError", "has"))

(* Context.get *)
ContextGet(st, sid, name) ==
    IF name \in DOMAIN st.scopes[sid].runtime
    THEN Ret(st, st.scopes[sid].runtime[name])
    ELSE Then(Call(st, "RegGet", <<st.scopes[sid].container, name>>),
              LAMBDA got :
                 Ret([got.st EXCEPT !.scopes[sid].runtime = (name :> got.r) @@ @],
                     got.r))

(* Context.has *)
ContextHas(st, sid, name) ==
    IF name \in DOMAIN st.scopes[sid].runtime
    THEN Ret(st, BoolV(TRUE))
    ELSE Call(st, "RegHas", <<st.scopes[sid].container, name>>)

(* a call of method f with the arguments a, on the state st *)
Call(st, f, a) ==
    CASE f = "ContextGet" -> ContextGet(st, a[1], a[2])
      [] f = "ContextHas" -> ContextHas(st, a[1], a[2])
      [] f = "WrapperGet" -> WrapperGet(st, a[1])
      [] f = "WrapperHas" -> WrapperHas(st, a[1])
      [] f = "RegGet" -> RegGet(st, a[1], a[2])
      [] f = "RegHas" -> RegHas(st, a[1], a[2])
      [] f = "StackContainerGet" -> StackContainerGet(st, a[1], a[2])
      [] f = "StackContainerHas" -> StackContainerHas(st, a[1], a[2])
      [] f = "StackGetFrom" -> StackGetFrom(st, a[1], a[2], a[3])
      [] f = "StackHasFrom" -> StackHasFrom(st, a[1], a[2], a[3])
      [] f = "ResolveValue" -> ResolveValue(st, a[1])
      [] f = "ResolveItems" -> ResolveItems(st, a[1], a[2], a[3])
      [] f = "ResolveList" -> ResolveList(st, a[1], a[2], a[3])


----------------------------------------------------------------------------
(* The operations a task can call *)

Tasks == {"main", "child"}

(* the module lists and configurations the application is started with *)
ModuleLists == {<<"app">>, <<"bare", "app", "ovr">>}
Configurations == {EmptyDict}

(* the runtime dicts a caller hands to Context.new_from (None is the empty one) *)
Overrides == {EmptyDict, "k" :> IntV(9)}

(* Context.instances.get([]) in the context of task t *)
ActiveStack(t) == IF cvar[t].list = 0 THEN <<>> ELSE lists[cvar[t].list]

St(t) == [scopes |-> scopes, app |-> app, wstack |-> wstack, objs |-> objs,
          log |-> <<>>, stack |-> ActiveStack(t)]

RECURSIVE MaxCtx(_)
(* the highest Context a value holds a reference to *)
MaxCtx(v) ==
    CASE v.t = "ctx" -> v.n
      [] v.t \in {"dict", "obj"} -> SetMax({MaxCtx(v.d[key]) : key \in DOMAIN v.d})
      [] v.t = "list" -> SetMax({MaxCtx(v.l[i]) : i \in 1..Len(v.l)})
      [] OTHER -> 0

(* The Context objects still referenced when an operation returns: a root   *)
(* Context the ambient accessor built for one call is garbage afterwards    *)
(* unless the result or a cache of a live Context refers to it.             *)
LiveScopes(n0, st, r) ==
    LET referenced ==
            SetMax({MaxCtx(r)} \cup
                   {MaxCtx(DictV(st.scopes[i].runtime)) : i \in 1..n0})
    IN IF referenced > n0 THEN st.scopes ELSE SubSeq(st.scopes, 1, n0)

Record(op, t, sid, name, res, arg) ==
    [op |-> op, task |-> t, sid |-> sid, name |-> name, r |-> res.r,
     log |-> res.st.log, roots |-> Len(res.st.scopes) - Len(scopes), arg |-> arg]

Commit(op, t, sid, name, res, arg) ==
    /\ res.st.objs <= MaxObjs
    /\ Len(LiveScopes(Len(scopes), res.st, res.r)) <= MaxScopes
    /\ scopes' = LiveScopes(Len(scopes), res.st, res.r)
    /\ app' = res.st.app
    /\ wstack' = res.st.wstack
    /\ objs' = res.st.objs
    /\ last' = Record(op, t, sid, name, res, arg)
    /\ UNCHANGED <<made, cvar, lists>>

(* ApplicationContainer.__new__ without the test of cls.instance *)
ApplicationContainerMutant(a, m, modules, configuration) ==
    [app |-> [exists |-> TRUE, modules |-> Append(modules, "logos"),
              configuration |-> configuration, container |-> NoneRef],
     made |-> m + 1, r |-> NoneV]

(* ApplicationContainer.__init__ putting 'logos' first in the module list *)
ApplicationContainerFirstMutant(a, m, modules, configuration) ==
    IF ~a.exists
    THEN [app |-> [exists |-> TRUE, modules |-> <<"logos">> \o modules,
                   configuration |-> configuration, container |-> NoneRef],
          made |-> m + 1, r |-> NoneV]
    ELSE [app |-> a, made |-> m,
          r |-> Err("ContainerException", "application container already initialized")]

(* ApplicationContainer.__new__ followed, when it returns, by __init__ *)
ApplicationContainer(a, m, modules, configuration) ==
    IF ~a.exists
    THEN [app |-> [exists |-> TRUE, modules |-> Append(modules, "logos"),
                   configuration |-> configuration, container |-> NoneRef],
          made |-> m + 1, r |-> NoneV]
    ELSE [app |-> a, made |-> m,
          r |-> Err("ContainerException", "application container already initialized")]

(* ApplicationContainer(modules, configuration), called by task t *)
New(t, modules, configuration) ==
    LET res == ApplicationContainer(app, made, modules, configuration)
    IN /\ cvar[t].started
       /\ app' = res.app
       /\ made' = res.made
       /\ last' = [op |-> "new", task |-> t, sid |-> 0, name |-> "", r |-> res.r,
                   log |-> <<>>, roots |-> 0, arg |-> NoneV]
       /\ UNCHANGED <<wstack, scopes, cvar, lists, objs>>

(* Context(ApplicationContainer.instance), called by task t: the second     *)
(* __init__ wraps the container in a StackContainer                         *)
ContextInit(container, runtime) ==
    [container |-> IF container.t = "Stack" THEN container
                   ELSE StackContainer(<<container>>),
     runtime |-> runtime, parent |-> 0]

NewContext(t) ==
    /\ cvar[t].started
    /\ app.exists
    /\ Len(scopes) < MaxScopes
    /\ scopes' = Append(scopes, ContextInit(AppRef, EmptyDict))
    /\ last' = [op |-> "context", task |-> t, sid |-> Len(scopes) + 1, name |-> "",
                r |-> CtxV(Len(scopes) + 1), log |-> <<>>, roots |-> 0,
                arg |-> NoneV]
    /\ UNCHANGED <<app, made, wstack, cvar, lists, objs>>

(* new_from copying every cached value as it is, cloneable or not *)
CloneIntoMutant(st, parent, names, runtime) == Ret(st, DictV(runtime @@ parent))

RECURSIVE CloneInto(_, _, _, _)
(* the loop of Context.new_from over the parent's runtime items *)
CloneInto(st, parent, names, runtime) ==
    IF names = {} THEN Ret(st, DictV(runtime))
    ELSE LET name == CHOOSE x \in names : TRUE
             value == parent[name]
         IN IF name \notin DOMAIN runtime /\ HasClone(value)
            THEN LET copy == NewObject(st, value.s, value.d)
                 IN CloneInto(copy.st, parent, names \ {name},
                              (name :> copy.r) @@ runtime)
            ELSE CloneInto(st, parent, names \ {name}, runtime)

(* Context.new_from putting the extra registry below the parent's registry *)
NewFromMutant(st, sid, runtime, extra) ==
    LET seeded == CloneInto(st, st.scopes[sid].runtime,
                            DOMAIN st.scopes[sid].runtime, runtime)
        container == IF extra # NoneRef
                     THEN StackContainer(<<extra, st.scopes[sid].container>>)
                     ELSE StackContainer(<<st.scopes[sid].container>>)
        child == [ContextInit(container, seeded.r.d) EXCEPT !.parent = sid]
    IN Ret([seeded.st EXCEPT !.scopes = Append(@, child)],
           CtxV(Len(seeded.st.scopes) + 1))

(* Context.new_from(context, runtime, container) *)
NewFrom(st, sid, runtime, extra) ==
    LET seeded == CloneInto(st, st.scopes[sid].runtime,
                            DOMAIN st.scopes[sid].runtime, runtime)
        container == IF extra # NoneRef
                     THEN StackContainer(<<st.scopes[sid].container, extra>>)
                     ELSE StackContainer(<<st.scopes[sid].container>>)
        child == [ContextInit(container, seeded.r.d) EXCEPT !.parent = sid]
    IN Ret([seeded.st EXCEPT !.scopes = Append(@, child)],
           CtxV(Len(seeded.st.scopes) + 1))

Derive(t, sid, runtime, extra) ==
    /\ cvar[t].started
    /\ sid \in 1..Len(scopes)
    /\ Len(scopes) < MaxScopes
    /\ LET res == NewFrom(St(t), sid, runtime, extra)
       IN Commit("derive", t, res.r.n, IF extra = NoneRef THEN "" ELSE "extra",
                 res, DictV(runtime))

(* Context.__enter__ in task t *)
ContextEnter(binding, heap, sid) ==
    IF binding = 0
    THEN [binding |-> Len(heap) + 1, heap |-> Append(heap, <<sid>>)]
    ELSE [binding |-> binding, heap |-> [heap EXCEPT ![binding] = Append(@, sid)]]

Enter(t, sid) ==
    /\ cvar[t].started
    /\ sid \in 1..Len(scopes)
    /\ Len(ActiveStack(t)) < MaxStack
    /\ LET res == ContextEnter(cvar[t].list, lists, sid)
       IN /\ cvar' = [cvar EXCEPT ![t].list = res.binding]
          /\ lists' = res.heap
    /\ last' = [op |-> "enter", task |-> t, sid |-> sid, name |-> "", r |-> NoneV,
                log |-> <<>>, roots |-> 0, arg |-> NoneV]
    /\ UNCHANGED <<app, made, wstack, scopes, objs>>

(* Context.__enter__ in task t while it has no block open *)
EnterOutermost(t, sid) ==
    /\ ActiveStack(t) = <<>>
    /\ Enter(t, sid)

(* list.index: the position of the first occurrence, 0 for ValueError *)
Index(contexts, sid) ==
    IF \E i \in 1..Len(contexts) : contexts[i] = sid
    THEN CHOOSE i \in 1..Len(contexts) :
             /\ contexts[i] = sid
             /\ \A j \in 1..(i - 1) : contexts[j] # sid
    ELSE 0

(* list.pop(index) *)
Pop(contexts, index) ==
    SubSeq(contexts, 1, index - 1) \o SubSeq(contexts, index + 1, Len(contexts))

(* Context.__exit__ in task t *)
ContextExit(contexts, sid) ==
    IF Index(contexts, sid) = 0
    THEN [contexts |-> contexts, r |-> Err("ValueError", "not in list")]
    ELSE [contexts |-> Pop(contexts, Index(contexts, sid)), r |-> NoneV]

Exit(t, sid) ==
    /\ cvar[t].started
    /\ sid \in 1..Len(scopes)
    /\ LET res == ContextExit(ActiveStack(t), sid)
       IN /\ lists' = IF cvar[t].list = 0 THEN lists
                      ELSE [lists EXCEPT ![cvar[t].list] = res.contexts]
          /\ last' = [op |-> "exit", task |-> t, sid |-> sid, name |-> "", r |-> res.r,
                      log |-> <<>>, roots |-> 0, arg |-> NoneV]
    /\ UNCHANGED <<app, made, wstack, scopes, cvar, objs>>

(* A second task starts: a thread starts in an empty context, an asyncio    *)
(* task (or copy_context().run) in a copy of its creator's context, where   *)
(* Context.instances is bound to the very list object of the creator.       *)
Spawn(mode) ==
    /\ ~cvar["child"].started
    /\ cvar' = [cvar EXCEPT !["child"] =
                    [started |-> TRUE,
                     list |-> IF mode = "task" THEN cvar["main"].list ELSE 0]]
    /\ last' = [op |-> "spawn", task |-> "main", sid |-> 0, name |-> mode, r |-> NoneV,
                log |-> <<>>, roots |-> 0, arg |-> NoneV]
    /\ UNCHANGED <<app, made, wstack, scopes, lists, objs>>

(* scope.get(name) on a Context the task holds *)
ScopeGet(t, sid, name) ==
    /\ cvar[t].started
    /\ sid \in 1..Len(scopes)
    /\ Commit("get", t, sid, name, Call(St(t), "ContextGet", <<sid, name>>), NoneV)

(* scope.has(name) on a Context the task holds *)
ScopeHas(t, sid, name) ==
    /\ cvar[t].started
    /\ sid \in 1..Len(scopes)
    /\ Commit("has", t, sid, name, Call(St(t), "ContextHas", <<sid, name>>), NoneV)

(* context.get(name): the ambient accessor *)
AmbientGet(t, name) ==
    /\ cvar[t].started
    /\ Commit("ambient_get", t, 0, name, Call(St(t), "WrapperGet", <<name>>), NoneV)

(* context.has(name): the ambient accessor *)
AmbientHas(t, name) ==
    /\ cvar[t].started
    /\ Commit("ambient_has", t, 0, name, Call(St(t), "WrapperHas", <<name>>), NoneV)

(* container.get(name) on the flat registry of module "app" *)
RegistryGet(t, name) ==
    /\ cvar[t].started
    /\ Commit("registry_get", t, 0, name, Call(St(t), "RegGet", <<AppModule, name>>), NoneV)

(* container.has(name) on the flat registry of module "app" *)
RegistryHas(t, name) ==
    /\ cvar[t].started
    /\ Commit("registry_has", t, 0, name,
              Ret(St(t), BoolV(ContainerHas(AppModule, name))), NoneV)

(* the flat registries a caller stacks, and the stacks it builds of them *)
Layers ==
    {Container("k" :> Parameter(IntV(1))),
     Container("k" :> Parameter(IntV(2)) @@ "d" :> Parameter(IntV(5))),
     Container("d" :> Parameter(IntV(6)))}

RECURSIVE LayerLists(_)
LayerLists(n) ==
    IF n = 0 THEN {<<>>}
    ELSE LayerLists(n - 1) \cup [1..n -> Layers]

(* StackContainer(layers).get(name) *)
LayeredGet(t, layers, name) ==
    /\ cvar[t].started
    /\ Commit("stack_get", t, 0, name,
              StackContainerGet(St(t), StackContainer(layers), name), ListV(layers))

(* StackContainer(layers).has(name) *)
LayeredHas(t, layers, name) ==
    /\ cvar[t].started
    /\ Commit("stack_has", t, 0, name,
              StackContainerHas(St(t), StackContainer(layers), name), ListV(layers))

(* ApplicationContainer.instance.get(name) *)
AppGet(t, name) ==
    /\ cvar[t].started
    /\ app.exists
    /\ Commit("app_get", t, 0, name, Call(St(t), "RegGet", <<AppRef, name>>), NoneV)

(* ApplicationContainer.instance.has(name) *)
AppHas(t, name) ==
    /\ cvar[t].started
    /\ app.exists
    /\ Commit("app_has", t, 0, name, Call(St(t), "RegHas", <<AppRef, name>>), NoneV)

(* the module lists an application is assembled from *)
AssemblyLists ==
    {<<"app">>, <<"app", "ovr">>, <<"ovr", "app">>, <<"bare", "cmds">>, <<"cmds", "app">>}

(* Service(klz, factory, parameters): the declaration a module writes *)
ServiceNew(t, klz, factory, parameters) ==
    /\ cvar[t].started
    /\ LET service == ServiceInit(klz, factory, parameters)
       IN last' = [op |-> "service", task |-> t, sid |-> 0, name |-> "",
                   r |-> IF "kind" \in DOMAIN service
                         THEN [t |-> "resource", v |-> service]
                         ELSE service,
                   log |-> <<>>, roots |-> 0,
                   arg |-> DictV("klz" :> klz @@ "factory" :> factory)]
    /\ UNCHANGED <<app, made, wstack, scopes, cvar, lists, objs>>

(* the strings a Parameter wraps: plain, with one delimiter, placeholders,  *)
(* and texts with a placeholder inside                                      *)
Strings ==
    {"plain", "", "%k", "k%", "a%k%", "%k%b", "%", "%%", "%k%-%k%",
     "%k%", "%p%", "%nope%"}

(* the leaves of the nested values a Parameter wraps *)
Leaves == {IntV(2), StrV("plain"), StrV("%k%"), StrV("%p%"), StrV("%k%-%k%")}

(* the first element of a list and the value of key "a" of a dict *)
Heads == {IntV(2), StrV("%k%")}

RECURSIVE Nested(_)
(* dicts and lists nested up to depth n over the leaves *)
Nested(n) ==
    IF n = 0 THEN Leaves
    ELSE Nested(n - 1)
         \cup {ListV(<<>>), DictV(EmptyDict)}
         \cup {ListV(<<x, y>>) : x \in Heads, y \in Nested(n - 1)}
         \cup {DictV("a" :> x @@ "b" :> y) : x \in Heads, y \in Nested(n - 1)}

(* Parameter(value).resolve(context) *)
ParameterResolve(t, value) ==
    /\ cvar[t].started
    /\ Commit("resolve", t, 0, "", Call(St(t), "ResolveValue", <<value>>), value)

Init ==
    /\ app = NoApp
    /\ made = 0
    /\ wstack = NoneRef
    /\ scopes = <<>>
    /\ cvar = [t \in Tasks |-> [started |-> t = "main", list |-> 0]]
    /\ lists = <<>>
    /\ objs = 0
    /\ last = [op |-> "init", task |-> "main", sid |-> 0, name |-> "", r |-> NoneV,
               log |-> <<>>, roots |-> 0, arg |-> NoneV]

(* Scopes, their caches and derivation, driven by one task *)
Next ==
    \/ New("main", <<"app">>, EmptyDict)
    \/ NewContext("main")
    \/ \E sid \in 1..MaxScopes, o \in Overrides, e \in {NoneRef, ExtraRegistry} :
          Derive("main", sid, o, e)
    \/ \E sid \in 1..MaxScopes : Enter("main", sid)
    \/ \E sid \in 1..MaxScopes : Exit("main", sid)
    \/ \E sid \in 1..MaxScopes, n \in {"k", "svc"} : ScopeGet("main", sid, n)
    \/ \E sid \in 1..MaxScopes, n \in {"k", "svc"} : ScopeHas("main", sid, n)

Spec == Init /\ [][Next]_vars

(* The ambient accessor and the flat registry, driven by one task *)
NextAmbient ==
    \/ New("main", <<"app">>, EmptyDict)
    \/ NewContext("main")
    \/ \E sid \in 1..MaxScopes : Enter("main", sid)
    \/ \E sid \in 1..MaxScopes : Exit("main", sid)
    \/ \E n \in {"k", "svc", "context"} : AmbientGet("main", n)
    \/ \E n \in {"k", "svc", "context"} : AmbientHas("main", n)

SpecAmbient == Init /\ [][NextAmbient]_vars

(* one task working on Context objects with at most one block open, which   *)
(* stays open: the Context it entered, if any, is the ambient one           *)
NextCache ==
    \/ New("main", <<"app">>, EmptyDict)
    \/ NewContext("main")
    \/ \E sid \in 1..MaxScopes, o \in Overrides, e \in {NoneRef, ExtraRegistry} :
          Derive("main", sid, o, e)
    \/ \E sid \in 1..MaxScopes : EnterOutermost("main", sid)
    \/ \E sid \in 1..MaxScopes, n \in {"k", "svc"} : ScopeGet("main", sid, n)
    \/ \E sid \in 1..MaxScopes, n \in {"k", "svc"} : ScopeHas("main", sid, n)

SpecCache == Init /\ [][NextCache]_vars

(* Scopes derived with an extra registry that declares the application's    *)
(* names, asked directly                                                    *)
NextDerive ==
    \/ New("main", <<"app">>, EmptyDict)
    \/ NewContext("main")
    \/ \E sid \in 1..MaxScopes, o \in Overrides : Derive("main", sid, o, ExtraService)
    \/ \E sid \in 1..MaxScopes, n \in {"k", "svc"} : ScopeGet("main", sid, n)

SpecDerive == Init /\ [][NextDerive]_vars

(* The flat registry of module "app", asked directly *)
NextRegistry ==
    \/ \E m \in ModuleLists, c \in Configurations : New("main", m, c)
    \/ NewContext("main")
    \/ \E sid \in 1..MaxScopes : Enter("main", sid)
    \/ \E n \in {"k", "p", "svc", "bad", "nope"} : RegistryGet("main", n)
    \/ \E n \in {"k", "p", "svc", "bad", "nope"} : RegistryHas("main", n)

SpecRegistry == Init /\ [][NextRegistry]_vars

(* Layered registries over every list of up to MaxLayers flat registries *)
NextLayers ==
    \/ \E layers \in LayerLists(MaxLayers), n \in {"k", "d", "nope"} :
          LayeredGet("main", layers, n)
    \/ \E layers \in LayerLists(MaxLayers), n \in {"k", "d", "nope"} :
          LayeredHas("main", layers, n)

SpecLayers == Init /\ [][NextLayers]_vars

(* Declarations and Parameter interpolation, against the application's     *)
(* registry                                                                 *)
NextResources ==
    \/ New("main", <<"app">>, EmptyDict)
    \/ \E klz \in {NoneV, StrV("m:Buf")}, factory \in {NoneV, StrV("fac")},
          parameters \in {EmptyDict, "arg" :> StrV("%k%")} :
          ServiceNew("main", klz, factory, parameters)
    \/ \E value \in {StrV(x) : x \in Strings} \cup Nested(MaxDepth) :
          ParameterResolve("main", value)

SpecResources == Init /\ [][NextResources]_vars

(* The application registry assembled from module lists, and the groups     *)
(* found in the current scope                                               *)
NextAssembly ==
    \/ \E m \in AssemblyLists : New("main", m, EmptyDict)
    \/ NewContext("main")
    \/ \E sid \in 1..MaxScopes : Derive("main", sid, EmptyDict, ExtraCommands)
    \/ \E sid \in 1..MaxScopes : EnterOutermost("main", sid)
    \/ \E n \in {"k", "app.command", "app.modules", "nope"} : AppGet("main", n)
    \/ \E n \in {"k", "app.command", "app.modules", "nope"} : AppHas("main", n)
    \/ \E n \in {"groups.commands", "groups.cmd"} : AmbientGet("main", n)

SpecAssembly == Init /\ [][NextAssembly]_vars

(* The active-scope list under two tasks *)
NextTasks ==
    \/ \E t \in Tasks : New(t, <<"app">>, EmptyDict)
    \/ \E t \in Tasks : NewContext(t)
    \/ \E t \in Tasks, sid \in 1..MaxScopes : Enter(t, sid)
    \/ \E t \in Tasks, sid \in 1..MaxScopes : Exit(t, sid)
    \/ \E mode \in {"thread", "task"} : Spawn(mode)

SpecTasks == Init /\ [][NextTasks]_vars

----------------------------------------------------------------------------
(* Properties *)

IsNotRegistered(r) == IsErr(r) /\ r.s = "ContainerException"
Front(q) == SubSeq(q, 1, Len(q) - 1)

(* C1: a Scope's cache only grows.  In every step, every entry of every     *)
(* Scope's cache is still there with the same value afterwards, and a       *)
(* get(n) on a Scope that already holds n returns the held value and calls  *)
(* no Resource's resolve.                                                   *)
C1_CacheMonotonic ==
    [][\A sid \in 1..Len(scopes) : \A n \in DOMAIN scopes[sid].runtime :
          /\ sid <= Len(scopes')
          /\ n \in DOMAIN scopes'[sid].runtime
          /\ scopes'[sid].runtime[n] = scopes[sid].runtime[n]
          /\ (last'.op = "get" /\ last'.sid = sid /\ last'.name = n)
                => (last'.r = scopes[sid].runtime[n] /\ last'.log = <<>>)]_vars

(* a second get("svc") on a Scope answered from its cache *)
C1_Witness ==
    /\ last.op = "get"
    /\ last.name = "svc"
    /\ last.r.t = "obj"
    /\ last.log = <<>>
    /\ scopes[last.sid].runtime["svc"] = last.r

(* C2: a Scope entered or exited by one task never changes the active-scope *)
(* stack another started task observes.                                     *)
C2_StackIsolated ==
    [][\A u \in Tasks :
          (last'.op \in {"enter", "exit"} /\ last'.task # u /\ cvar[u].started)
             => ActiveStack(u)' = ActiveStack(u)]_vars

(* C3: a layered get returns the resolution of the last layer that has the  *)
(* name, whenever some layer has it.                                        *)
C3_LayeredOverride ==
    last.op = "stack_get" =>
        LET layers == last.arg.l
            having == {i \in 1..Len(layers) : last.name \in DOMAIN layers[i].resources}
        IN having # {} =>
              last.r = layers[SetMax(having)].resources[last.name].value

(* two layers declare k, the later one the smaller value, and it wins *)
C3_Witness ==
    /\ last.op = "stack_get"
    /\ last.name = "k"
    /\ Len(last.arg.l) = 2
    /\ "k" \in DOMAIN last.arg.l[1].resources
    /\ "k" \in DOMAIN last.arg.l[2].resources
    /\ last.arg.l[1].resources["k"].value = IntV(2)
    /\ last.arg.l[2].resources["k"].value = IntV(1)
    /\ last.r = IntV(1)

C4_ParentCacheUntouched ==
    [][(/\ last'.op \in {"get", "has"}
        /\ last'.sid \in 1..Len(scopes)
        /\ scopes[last'.sid].parent # 0)
          => scopes'[scopes[last'.sid].parent].runtime
                = scopes[scopes[last'.sid].parent].runtime]_vars

(* C5: entering a Scope appends it to the task's active-scope stack, and    *)
(* the exit that closes the innermost open block (the Scope on top) gives   *)
(* back the stack as it was before that block was entered.                  *)
C5_EnterExitRestores ==
    [][\A t \in Tasks :
          /\ (last'.op = "enter" /\ last'.task = t)
                => ActiveStack(t)' = Append(ActiveStack(t), last'.sid)
          /\ (/\ last'.op = "exit" /\ last'.task = t
              /\ ActiveStack(t) # <<>>
              /\ ActiveStack(t)[Len(ActiveStack(t))] = last'.sid)
                => ActiveStack(t)' = Front(ActiveStack(t))]_vars

(* C6: with a non-empty active-scope stack an ambient get is answered by    *)
(* the Scope on top and changes no other Scope's cache, and once the Scope  *)
(* on top exits, the Scope that was below it is on top.                     *)
C6_AmbientDelegation ==
    [][LET stack == ActiveStack("main")
           top == stack[Len(stack)]
       IN /\ (last'.op = "ambient_get" /\ stack # <<>>)
                => /\ last'.r = ContextGet(St("main"), top, last'.name).r
                   /\ \A sid \in 1..Len(scopes) :
                         sid # top => scopes'[sid].runtime = scopes[sid].runtime
                   /\ ~IsErr(last'.r) => scopes'[top].runtime[last'.name] = last'.r
          /\ (/\ last'.op = "exit" /\ ~IsErr(last'.r)
              /\ Len(stack) >= 2 /\ top = last'.sid)
                => /\ ActiveStack("main")' # <<>>
                   /\ ActiveStack("main")'[Len(ActiveStack("main")')]
                         = stack[Len(stack) - 1]]_vars

(* C7: while no Scope has ever been entered, the second of two successive   *)
(* ambient get(n) calls returns the value of the first, calls no resolve    *)
(* and builds no new root Scope.                                            *)
C7_RootScopeReuse ==
    [][(/\ app.exists
        /\ last.op = "ambient_get" /\ ~IsErr(last.r)
        /\ last'.op = "ambient_get" /\ last'.name = last.name
        /\ lists' = <<>>)
          => (last'.r = last.r /\ last'.log = <<>> /\ last'.roots = 0)]_vars

(* C8: at most one ApplicationContainer is ever built; a construction       *)
(* succeeds exactly when none exists yet, and every other one fails with    *)
(* "already initialized" and changes nothing.                               *)
C8_Singleton ==
    /\ [](made <= 1 /\ (app.exists <=> made = 1))
    /\ [][last'.op = "new" =>
             IF app.exists
             THEN /\ last'.r = Err("ContainerException",
                                   "application container already initialized")
                  /\ app' = app /\ made' = made
             ELSE /\ last'.r = NoneV
                  /\ app'.exists /\ made' = 1]_vars

(* a construction attempt refused because the singleton exists *)
C8_Witness ==
    /\ last.op = "new"
    /\ IsErr(last.r)
    /\ made = 1
    /\ app.exists

(* C9: right after new_from the child's cache holds the runtime overrides   *)
(* unchanged and, for every other name of the parent's cache, a clone (a    *)
(* new object of the same class and arguments) exactly when the value has   *)
(* a clone method; a name the child does not hold is resolved through the   *)
(* registry when the child is asked for it.                                 *)
C9_DeriveSeeds ==
    /\ [](last.op = "derive" =>
            LET child == scopes[last.sid].runtime
                parent == scopes[scopes[last.sid].parent].runtime
                over == last.arg.d
            IN /\ DOMAIN child =
                     DOMAIN over \cup {n \in DOMAIN parent : HasClone(parent[n])}
               /\ \A n \in DOMAIN over : child[n] = over[n]
               /\ \A n \in DOMAIN child \ DOMAIN over :
                     /\ child[n].t = "obj"
                     /\ child[n].s = parent[n].s
                     /\ child[n].d = parent[n].d
                     /\ child[n].n # parent[n].n)
    /\ [][(/\ last'.op = "get" /\ last'.sid \in 1..Len(scopes)
           /\ last'.name \notin DOMAIN scopes[last'.sid].runtime
           /\ ~IsErr(last'.r))
             => (Len(last'.log) >= 1 /\ last'.log[1] = last'.name)]_vars

(* a child derived without overrides from a parent holding k and svc:       *)
(* svc is cloned, k is left out                                             *)
C9_Witness ==
    /\ last.op = "derive"
    /\ last.arg.d = EmptyDict
    /\ DOMAIN scopes[scopes[last.sid].parent].runtime = {"k", "svc"}
    /\ DOMAIN scopes[last.sid].runtime = {"svc"}

(* C10 as claimed: a get(n) on a flat registry that has n never fails with  *)
(* a not-registered error.                                                  *)
C10_NeverNotRegistered ==
    (last.op = "registry_get" /\ ContainerHas(AppModule, last.name))
       => ~IsNotRegistered(last.r)

(* C10 amended: a get(n) on a flat registry that has n reaches n's          *)
(* Resource, and a not-registered error it ends with names a name that the  *)
(* current scope does not have.                                             *)
C10_LookupSucceeds ==
    (last.op = "registry_get" /\ ContainerHas(AppModule, last.name))
       => /\ Len(last.log) >= 1
          /\ last.log[1] = last.name
          /\ IsNotRegistered(last.r)
                => WrapperHas(St("main"), last.r.m).r = BoolV(FALSE)

(* get("bad") reaches the Parameter "%nope%" and fails for nope *)
C10_Witness ==
    /\ last.op = "registry_get"
    /\ last.name = "bad"
    /\ last.log = <<"bad">>
    /\ last.r = Err("ContainerException", "nope")

(* C12: constructing a Service with neither a class nor a factory           *)
(* reference, or with both, fails with a configuration error, and a Service *)
(* that was constructed holds exactly one of the two references.            *)
C12_ExactlyOneReference ==
    last.op = "service" =>
        LET given == {x \in {"klz", "factory"} : last.arg.d[x] # NoneV}
        IN /\ Cardinality(given) # 1 => last.r = Err("ValueError", "class or factory is required")
           /\ ~IsErr(last.r) => last.r.v.hasklz # last.r.v.hasfactory

(* C13: a string that is not one name between one leading and one trailing  *)
(* delimiter is returned unchanged and no registry is asked for a name.     *)
IsPlaceholder(s) ==
    /\ Len(s) >= 3
    /\ StartsWith(s, "%") /\ EndsWith(s, "%")
    /\ \A i \in 2..(Len(s) - 1) : SubSeq(s, i, i) # "%"

C13_WholeStringOnly ==
    (last.op = "resolve" /\ last.arg.t = "str" /\ ~IsPlaceholder(last.arg.s))
       => (last.r = last.arg /\ last.roots = 0 /\ last.log = <<>>)

(* C14: with the application's registry behind the ambient accessor,        *)
(* resolving a nesting of dicts and lists gives the same nesting with the   *)
(* same keys, where each leaf %name% is the interpolated value of the       *)
(* Parameter name and every other leaf is the leaf itself.                  *)
PlaceholderName(s) == SubSeq(s, 2, Len(s) - 1)

RECURSIVE Resolvable(_)
Resolvable(v) ==
    CASE v.t = "dict" -> \A key \in DOMAIN v.d : Resolvable(v.d[key])
      [] v.t = "list" -> \A i \in 1..Len(v.l) : Resolvable(v.l[i])
      [] v.t = "str" /\ IsPlaceholder(v.s) ->
            /\ PlaceholderName(v.s) \in DOMAIN AppModule.resources
            /\ AppModule.resources[PlaceholderName(v.s)].kind = "Parameter"
            /\ Resolvable(AppModule.resources[PlaceholderName(v.s)].value)
      [] OTHER -> TRUE

RECURSIVE Interpolated(_)
Interpolated(v) ==
    CASE v.t = "dict" -> DictV([key \in DOMAIN v.d |-> Interpolated(v.d[key])])
      [] v.t = "list" -> ListV([i \in 1..Len(v.l) |-> Interpolated(v.l[i])])
      [] v.t = "str" /\ IsPlaceholder(v.s) ->
            Interpolated(AppModule.resources[PlaceholderName(v.s)].value)
      [] OTHER -> v

C14_StructurePreserved ==
    (/\ last.op = "resolve" /\ last.arg.t \in {"dict", "list"}
     /\ app.exists /\ wstack = StackContainer(<<AppRef>>)
     /\ Resolvable(last.arg))
       => last.r = Interpolated(last.arg)

----------------------------------------------------------------------------
(* The names declared in any layer of a registry, at any depth *)
RECURSIVE Declared(_)
Declared(reg) ==
    CASE reg.t = "Container" -> DOMAIN reg.resources
      [] reg.t = "Stack" ->
            UNION {Declared(reg.containers[i]) : i \in 1..Len(reg.containers)}
      [] reg.t = "App" ->
            IF app.container = NoneRef THEN {} ELSE Declared(app.container)
      [] OTHER -> {}

(* The registry of the scope the ambient accessor of task t delegates to *)
CurrentRegistry(t) ==
    IF ActiveStack(t) # <<>>
    THEN scopes[ActiveStack(t)[Len(ActiveStack(t))]].container
    ELSE RootContext(wstack, 0).container

(* a name without the prefix the pattern matched *)
Strip(pattern, name) == SubSeq(name, Len(PatBody(pattern)) + 1, Len(name))

(* the pattern of the Group declared under a name *)
GroupPattern(name) ==
    IF name \in DOMAIN LogosContainer.resources
    THEN LogosContainer.resources[name].pattern
    ELSE CmdsModule.resources[name].pattern

(* the mapping a Group with the pattern discovers in a registry *)
Discovered(pattern, reg) ==
    LET matching == {n \in Declared(reg) : Match(pattern, n)}
    IN DictV([key \in {Strip(pattern, n) : n \in matching} |->
                 StrV(CHOOSE n \in matching : Strip(pattern, n) = key)])

(* C15: a Group resolved through the ambient accessor gives one entry for   *)
(* every name declared in any layer of the current scope's registry that    *)
(* matches the pattern, keyed by the name without the matched prefix and    *)
(* valued by the name.                                                      *)
C15_GroupDiscovery ==
    (/\ last.op = "ambient_get"
     /\ last.name \in {"groups.commands", "groups.cmd"}
     /\ last.log # <<>>
     /\ ~IsErr(last.r))
       => last.r = Discovered(GroupPattern(last.name), CurrentRegistry(last.task))

----------------------------------------------------------------------------
(* The layers the application's registry is to have: the synthetic          *)
(* registry, the registries of the user modules that expose one in the      *)
(* order of the module list, the built-in module's registry last            *)
ExpectedLayers ==
    LET user == SubSeq(app.modules, 1, Len(app.modules) - 1)
        exposing == SelectSeq(user, HasContainerAttr)
    IN <<Synthetic(app)>>
       \o [i \in 1..Len(exposing) |-> ModuleContainer(exposing[i])]
       \o <<LogosContainer>>

(* the positions in the module list of the modules that declare a name *)
Declaring(name) ==
    {i \in 1..Len(app.modules) :
        /\ HasContainerAttr(app.modules[i])
        /\ name \in DOMAIN ModuleContainer(app.modules[i]).resources}

(* C16: the application's registry is absent after construction, built by   *)
(* the first get or has and never replaced afterwards; its layers are the   *)
(* synthetic registry, the user modules' registries in module-list order    *)
(* (modules without one skipped) and the built-in module last; a name       *)
(* declared by several modules resolves to the later module's resource,     *)
(* and app.command resolves to the built-in service even when a user        *)
(* module declares it.                                                      *)
C16_Assembly ==
    /\ [][(last'.op = "new" /\ ~IsErr(last'.r)) => app'.container = NoneRef]_vars
    /\ [][(last'.op \in {"app_get", "app_has"} /\ app.container = NoneRef)
             => app'.container # NoneRef]_vars
    /\ [][app.container # NoneRef => app'.container = app.container]_vars
    /\ [](app.container # NoneRef => app.container = StackContainer(ExpectedLayers))
    /\ []((last.op = "app_get" /\ last.name = "k") =>
             IF Declaring("k") = {}
             THEN last.r = Err("ContainerException", "k")
             ELSE last.r = ModuleContainer(app.modules[SetMax(Declaring("k"))])
                              .resources["k"].value)
    /\ []((last.op = "app_get" /\ last.name = "app.command") =>
             /\ last.r # CmdsModule.resources["app.command"].value
             /\ ~IsErr(last.r) =>
                   (last.r.t = "obj" /\ last.r.s = "logos.command:DelegateCommand"))

(* app.command asked of an application whose user module declares it too:   *)
(* the built-in service answers, with the commands the group discovered     *)
C16_Witness ==
    /\ last.op = "app_get"
    /\ last.name = "app.command"
    /\ \E i \in 1..Len(app.modules) : app.modules[i] = "cmds"
    /\ last.r.t = "obj"
    /\ last.r.s = "logos.command:DelegateCommand"
    /\ "build" \in DOMAIN last.r.d["commands"].d

----------------------------------------------------------------------------
(* a scope derived with the extra registry *)
HasExtra(c) ==
    /\ c.parent # 0
    /\ \E i \in 1..Len(c.container.containers) :
          c.container.containers[i] = ExtraService

(* v is what the extra registry's resource for n resolves to *)
FromExtra(n, v) ==
    IF ExtraService.resources[n].kind = "Parameter"
    THEN v = ExtraService.resources[n].value
    ELSE v.t = "obj" /\ v.s = ExtraService.resources[n].klz

(* v was handed to new_from for n as a runtime override *)
OverrideValue(n, v) == \E o \in Overrides : n \in DOMAIN o /\ o[n] = v

(* the cache of scope c holds for n a clone of what its parent's cache holds *)
Seeded(c, n) ==
    /\ n \in DOMAIN c.runtime
    /\ n \in DOMAIN scopes[c.parent].runtime
    /\ HasClone(c.runtime[n])
    /\ c.runtime[n].s = scopes[c.parent].runtime[n].s
    /\ c.runtime[n].d = scopes[c.parent].runtime[n].d
    /\ c.runtime[n].n # scopes[c.parent].runtime[n].n

(* C17 as stated: get on a child derived with an extra registry returns,    *)
(* for a name the extra registry declares and no override gives, the value  *)
(* of the extra registry's resource, whatever the parent's cache held.      *)
C17_ExtraAlwaysWins ==
    (/\ last.op = "get"
     /\ last.sid \in 1..Len(scopes)
     /\ HasExtra(scopes[last.sid])
     /\ last.name \in DOMAIN ExtraService.resources
     /\ ~OverrideValue(last.name, last.r))
       => FromExtra(last.name, last.r)

(* C17 amended: the same, unless the child's cache was seeded at derivation *)
(* with a clone of the parent's cached value; then get returns that clone.  *)
C17_ExtraOnTop ==
    (/\ last.op = "get"
     /\ last.sid \in 1..Len(scopes)
     /\ HasExtra(scopes[last.sid])
     /\ last.name \in DOMAIN ExtraService.resources
     /\ ~OverrideValue(last.name, last.r))
       => IF Seeded(scopes[last.sid], last.name)
          THEN last.r = scopes[last.sid].runtime[last.name]
          ELSE FromExtra(last.name, last.r)

(* the child answers k from the extra registry while the parent's cache     *)
(* holds the application's k                                                *)
C17_Witness ==
    /\ last.op = "get"
    /\ last.sid \in 1..Len(scopes)
    /\ HasExtra(scopes[last.sid])
    /\ last.name = "k"
    /\ last.r = ExtraService.resources["k"].value
    /\ "k" \in DOMAIN scopes[scopes[last.sid].parent].runtime
    /\ scopes[scopes[last.sid].parent].runtime["k"] = AppModule.resources["k"].value

----------------------------------------------------------------------------
(* C18: when get(n) on a Scope S returns, n and every name requested while  *)
(* n was resolved are in S's cache, the value injected into svc for k is    *)
(* the one S's cache holds for k, and no other Scope's cache has gained a   *)
(* name; whether S is on top of the active-scope stack, lower, or not       *)
(* entered.                                                                 *)
C18_CachedInRequester ==
    [][(/\ last'.op = "get"
        /\ last'.sid \in 1..Len(scopes)
        /\ ~IsErr(last'.r))
          => /\ \A i \in 1..Len(last'.log) :
                   last'.log[i] \in DOMAIN scopes'[last'.sid].runtime
             /\ \A c \in (1..Len(scopes)) \ {last'.sid} :
                   DOMAIN scopes'[c].runtime = DOMAIN scopes[c].runtime
             /\ (last'.name = "svc" /\ last'.log # <<>>)
                   => /\ "k" \in DOMAIN scopes'[last'.sid].runtime
                      /\ last'.r.d["arg"] = scopes'[last'.sid].runtime["k"]]_vars

----------------------------------------------------------------------------
(* C19: once the application exists, an ambient get or has of k with an     *)
(* empty active-scope stack is answered from the application's registry,    *)
(* whether or not the ambient accessor was used before the application was  *)
(* constructed.                                                             *)
C19_OrderIndependent ==
    (/\ last.op \in {"ambient_get", "ambient_has"}
     /\ last.name = "k"
     /\ app.exists
     /\ ActiveStack(last.task) = <<>>)
       => last.r = IF last.op = "ambient_get"
                   THEN ModuleContainer(app.modules[SetMax(Declaring("k"))])
                           .resources["k"].value
                   ELSE BoolV(TRUE)

====
